---- MODULE Spec2Model ----
(***************************************************************************)
(* Model of ec2_terminator/app.py: a Lambda handler that lists every       *)
(* region of the account, lists the running/stopping/stopped instances of  *)
(* each region, drops those carrying the ignore tag or launched less than  *)
(* an hour ago, and stops or terminates the rest.                          *)
(*                                                                         *)
(* Strings that the code compares or lower-cases (EC2_ACTION, the action   *)
(* mode) are sequences of one-character strings, so that the comparison    *)
(* and str.lower() are computed.  Time is counted in half hours.           *)
(***************************************************************************)
EXTENDS Integers, Sequences, FiniteSets, TLC

\* ------------------------------------------------------------------ bounds

\* Longest list of regions describe_regions returns.
MaxRegions == 2
\* The clock advances at most this many half hours during a behaviour.
MaxTicks == 2
\* Number of successive invocations of lambda_handler.
MaxInvocations == 2
\* The clock's reading (in half hours) when the behaviour starts.
NowStart == 10

\* --------------------------------------------------------------- constants

IGNORE_TAG_KEY == "ec2-terminator:ignore"
IGNORE_TAG_VALUE == "ignore"

\* datetime.timedelta(hours=1), in half hours.
OneHour == 2

\* The literals the code compares the action mode with.
TERMINATE == <<"T", "E", "R", "M", "I", "N", "A", "T", "E">>
stop == <<"s", "t", "o", "p">>
terminate == <<"t", "e", "r", "m", "i", "n", "a", "t", "e">>

\* 'instance-state-name' values of the describe_instances filter.
state_filters == {"running", "stopping", "stopped"}

\* ------------------------------------------------------------ str helpers

\* str.lower() on one character (the letters that occur in the model).
LowerChar(c) ==
    CASE c = "T" -> "t" [] c = "E" -> "e" [] c = "R" -> "r" [] c = "M" -> "m"
      [] c = "I" -> "i" [] c = "N" -> "n" [] c = "A" -> "a" [] c = "S" -> "s"
      [] c = "O" -> "o" [] c = "P" -> "p" [] OTHER -> c

\* str.lower()
Lower(s) == [i \in DOMAIN s |-> LowerChar(s[i])]

\* The elements of a Python list of str, as repr() prints them.
RECURSIVE ReprItems(_)
ReprItems(ids) ==
    IF ids = <<>> THEN ""
    ELSE IF Len(ids) = 1 THEN "'" \o ids[1] \o "'"
    ELSE "'" \o ids[1] \o "', " \o ReprItems(Tail(ids))

\* A string held as a sequence of characters, as one string.
RECURSIVE Str(_)
Str(chars) == IF chars = <<>> THEN "" ELSE Head(chars) \o Str(Tail(chars))

\* f"{processed}": the repr() of a list of str.
Repr(ids) == "[" \o ReprItems(ids) \o "]"

\* --------------------------------------------------- the provider's account

\* The instances of the account.  'Tags' and 'LaunchTime' are optional keys
\* of a describe_instances record.
InstA == [InstanceId |-> "i-a", State |-> "running"]
InstB == [InstanceId |-> "i-b", State |-> "running",
          Tags |-> <<[Key |-> IGNORE_TAG_KEY, Value |-> IGNORE_TAG_VALUE]>>]
InstC == [InstanceId |-> "i-c", State |-> "stopped",
          Tags |-> <<[Key |-> "Name", Value |-> "web"],
                     [Key |-> IGNORE_TAG_KEY, Value |-> IGNORE_TAG_VALUE]>>,
          LaunchTime |-> 2]
InstD == [InstanceId |-> "i-d", State |-> "running",
          Tags |-> <<[Key |-> IGNORE_TAG_KEY, Value |-> "keep"]>>,
          LaunchTime |-> 9]
InstE == [InstanceId |-> "i-e", State |-> "stopping", LaunchTime |-> 2]
InstF == [InstanceId |-> "i-f", State |-> "terminated"]
InstG == [InstanceId |-> "i-g", State |-> "running",
          Tags |-> <<[Key |-> IGNORE_TAG_KEY, Value |-> IGNORE_TAG_VALUE]>>,
          LaunchTime |-> 10]
InstH == [InstanceId |-> "i-h", State |-> "running", LaunchTime |-> 10]

AllInstances == {InstA, InstB, InstC, InstD, InstE, InstF, InstG, InstH}
InstanceIds == {e.InstanceId : e \in AllInstances}

RegionNames == {"r-a", "r-b", "r-c"}

\* What each region holds: pages of reservations of instances, in the order
\* the provider returns them.
Account(region) ==
    CASE region = "r-a" -> << << <<InstA, InstB>>, <<InstD>> >>, << <<InstE>> >> >>
      [] region = "r-b" -> << <<>>, << <<InstC>>, <<InstG, InstF>> >> >>
      [] region = "r-c" -> << << <<InstH>> >> >>

\* The texts of the errors a provider call may raise.
ErrorTexts == {"TestClientException", "RequestLimitExceeded"}

\* The lists of regions describe_regions may return: no region twice, at
\* most MaxRegions of them.
RegionLists ==
    {rs \in UNION {[1..n -> RegionNames] : n \in 0..MaxRegions} :
        \A i, j \in DOMAIN rs : i # j => rs[i] # rs[j]}

\* The settings of the process environment: EC2_ACTION unset, empty, the
\* exact literal, and case variants of it.
Environs ==
    { {} } \cup
    { {<<"EC2_ACTION", v>>} :
        v \in {<<>>, TERMINATE, terminate,
               <<"T", "e", "R", "m", "I", "n", "A", "t", "E">>} }

\* os.environ.get(key, default)
EnvironGet(env, key, default) ==
    IF \E p \in env : p[1] = key
    THEN (CHOOSE p \in env : p[1] = key)[2]
    ELSE default

\* The provider's side of describe_instances(Filters=state_filters): one
\* page of the region, holding only the instances in the filtered states.
FilterReservation(rsvp) == SelectSeq(rsvp, LAMBDA e : e.State \in state_filters)

DescribeInstancesPage(region, n) ==
    [Reservations |->
        [k \in DOMAIN Account(region)[n] |-> FilterReservation(Account(region)[n][k])]]

NumPages(region) == Len(Account(region))

\* The instances of a page in the order the two inner loops visit them.
RECURSIVE PageInstances(_)
PageInstances(rsvps) ==
    IF rsvps = <<>> THEN <<>> ELSE Head(rsvps) \o PageInstances(Tail(rsvps))

\* The entries of seq at the indices in idxs, in order, from index i on.
RECURSIVE Keep(_, _, _)
Keep(seq, idxs, i) ==
    IF i > Len(seq) THEN <<>>
    ELSE (IF i \in idxs THEN <<seq[i]>> ELSE <<>>) \o Keep(seq, idxs, i + 1)

Reverse(seq) == [i \in DOMAIN seq |-> seq[Len(seq) + 1 - i]]

\* What the provider may echo for a batch: any part of it (partial
\* acceptance), in the order submitted, or all of it reversed.
Echoes(batch) ==
    {Keep(batch, idxs, 1) : idxs \in SUBSET DOMAIN batch} \cup {Reverse(batch)}

\* The response of stop_instances / terminate_instances confirming ids.
ProviderResponse(op, ids) ==
    IF op = "stop_instances"
    THEN [StoppingInstances |-> [i \in DOMAIN ids |-> [InstanceId |-> ids[i]]]]
    ELSE [TerminatingInstances |-> [i \in DOMAIN ids |-> [InstanceId |-> ids[i]]]]

\* How the provider answers one call: boto3.client fails (client = FALSE),
\* the request raises, or it succeeds (echoing `echo` for a state change).
Failures ==
    {[client |-> c, raises |-> c, text |-> t, echo |-> <<>>] :
        c \in BOOLEAN, t \in ErrorTexts}

Success(echo) == [client |-> TRUE, raises |-> FALSE, text |-> "", echo |-> echo]

\* ------------------------------------------------------------ the program

VARIABLES
    environ,          \* os.environ, as a set of <<key, value>>
    account_regions,  \* the regions the provider reports for the account
    now,              \* the clock, as of the latest instance examined
    invocation,       \* how many times lambda_handler has been invoked
    pc,               \* where lambda_handler stands
    ec2_action,       \* lambda_handler's ec2_action
    regions,          \* lambda_handler's regions
    ri,               \* index in regions of the region the loop is at
    found,            \* lambda_handler's found
    processed,        \* lambda_handler's processed
    page,             \* list_instances: pages of the region fetched so far
    pending,          \* list_instances: instances of the page not yet visited
    instances,        \* list_instances' instances
    response,         \* what lambda_handler returned
    exc,              \* the exception lambda_handler caught
    calls,            \* the provider requests of this invocation, in order
    classification,   \* per instance, how list_instances classified it
    previous          \* classification of the invocation before this one

vars ==
    <<environ, account_regions, now, invocation, pc, ec2_action, regions, ri,
      found, processed, page, pending, instances, response, exc, calls,
      classification, previous>>

NoResponse == [statusCode |-> 0, message |-> ""]
NoException == [type |-> "None", text |-> ""]
Unclassified == [id \in InstanceIds |-> [class |-> "none", young |-> FALSE]]

\* One entry of calls.
Call(op, region, ids, confirmed) ==
    [op |-> op, region |-> region, ids |-> ids, confirmed |-> confirmed]

\* SelectAction comparing without regard to case.
SelectAction_AnyCase(env) ==
    IF Lower(EnvironGet(env, "EC2_ACTION", <<>>)) = terminate
    THEN terminate ELSE stop

\* Lines 130-132: the action mode the environment selects.
SelectAction(env) ==
    IF EnvironGet(env, "EC2_ACTION", <<>>) = TERMINATE THEN terminate ELSE stop

\* NoRegions with the test of the list left out.
NoRegions_Unchecked(rs) == FALSE

\* Lines 136-137: whether the list of regions is rejected.
NoRegions(rs) == rs = <<>>

\* Lines 51-57: the instance carries the ignore tag.
HasIgnoreTag(ec2) ==
    /\ "Tags" \in DOMAIN ec2
    /\ \E i \in DOMAIN ec2.Tags :
          /\ ec2.Tags[i].Key = IGNORE_TAG_KEY
          /\ ec2.Tags[i].Value = IGNORE_TAG_VALUE

\* TooYoung with <= for <.
TooYoung_UpToOneHour(ec2, t) ==
    /\ "LaunchTime" \in DOMAIN ec2
    /\ t - ec2.LaunchTime <= OneHour

\* Lines 60-65: an instance not ignored by tag is less than an hour old at t.
TooYoung(ec2, t) ==
    /\ "LaunchTime" \in DOMAIN ec2
    /\ t - ec2.LaunchTime < OneHour

\* Ignore without the test of the tags.
Ignore_AgeOnly(ec2, t) == TooYoung(ec2, t)

\* Ignore without the test of the age.
Ignore_TagOnly(ec2, t) == HasIgnoreTag(ec2)

\* Lines 50-65: the value of `ignore` for instance ec2 examined at time t.
Ignore(ec2, t) ==
    IF HasIgnoreTag(ec2) THEN TRUE ELSE TooYoung(ec2, t)

\* ShouldSetState without the test of the batch.
ShouldSetState_Always(batch) == TRUE

\* Line 149: `if ec2_instances:`.
ShouldSetState(batch) == batch # <<>>

\* Extend putting the new identifiers first.
Extend_Prepend(list, confirmed) == confirmed \o list

\* Lines 151-153: processed.extend(confirmed).
Extend(list, confirmed) == list \o confirmed

\* Lines 77-103: set_instance_state, against a provider answering o.
\* Returns what it raised or returned, and the request it issued (if any).
set_instance_state(batch, state, region, o) ==
    IF ~o.client
    THEN [raised |-> TRUE, type |-> "Exception", text |-> o.text,
          call |-> <<>>, processed |-> <<>>]
    ELSE IF Lower(state) # stop /\ Lower(state) # terminate
    THEN [raised |-> TRUE, type |-> "ValueError",
          text |-> "Unknown instance state: " \o Str(state), call |-> <<>>, processed |-> <<>>]
    ELSE
      LET op == IF Lower(state) = stop THEN "stop_instances"
                ELSE "terminate_instances"
          resp_key == IF Lower(state) = stop THEN "StoppingInstances"
                      ELSE "TerminatingInstances"
      IN  IF o.raises
          THEN [raised |-> TRUE, type |-> "Exception", text |-> o.text,
                call |-> <<Call(op, region, batch, <<>>)>>, processed |-> <<>>]
          ELSE
            LET resp == ProviderResponse(op, o.echo)
            IN  [raised |-> FALSE, type |-> "None", text |-> "",
                 call |-> <<Call(op, region, batch, o.echo)>>,
                 processed |-> [i \in DOMAIN resp[resp_key] |->
                                   resp[resp_key][i].InstanceId]]

\* Report failing whenever nothing was confirmed, found or not.
Report_NotFoundFails(f, done, action) ==
    IF done = <<>>
    THEN [raised |-> TRUE, message |-> "Some instances failed to stop or terminate"]
    ELSE IF action = terminate
    THEN [raised |-> FALSE, message |-> "Instances terminated: " \o Repr(done)]
    ELSE [raised |-> FALSE, message |-> "Instances stopped: " \o Repr(done)]

\* Lines 158-165: the outcome of the report step.
Report(f, done, action) ==
    IF f /\ done = <<>>
    THEN [raised |-> TRUE, message |-> "Some instances failed to stop or terminate"]
    ELSE IF ~f
    THEN [raised |-> FALSE, message |-> "No running or stopped instances found"]
    ELSE IF action = terminate
    THEN [raised |-> FALSE, message |-> "Instances terminated: " \o Repr(done)]
    ELSE [raised |-> FALSE, message |-> "Instances stopped: " \o Repr(done)]

\* Lines 168-173: the response of a run that raised nothing.
SuccessResponse(message) == [statusCode |-> 200, message |-> message]

\* ExceptionResponse with a fixed message in place of str(exc).
ExceptionResponse_Generic(text) ==
    [statusCode |-> 500, message |-> "Internal Server Error"]

\* Lines 175-182: the response the except clause builds from str(exc).
ExceptionResponse(text) == [statusCode |-> 500, message |-> text]

\* The except clause (lines 175-182): the invocation ends with the response
\* built from the exception.
Raise(type, text) ==
    /\ exc' = [type |-> type, text |-> text]
    /\ response' = ExceptionResponse(text)
    /\ pc' = "done"

\* The loop moves on from region ri (line 144), or ends.
NextRegion ==
    /\ ri' = ri + 1
    /\ page' = 0
    /\ pending' = <<>>
    /\ instances' = <<>>
    /\ pc' = IF ri < Len(regions) THEN "list" ELSE "report"

Init ==
    /\ environ \in Environs
    /\ account_regions \in RegionLists
    /\ now = NowStart
    /\ invocation = 0
    /\ pc = "idle"
    /\ ec2_action = stop
    /\ regions = <<>>
    /\ ri = 0
    /\ found = FALSE
    /\ processed = <<>>
    /\ page = 0
    /\ pending = <<>>
    /\ instances = <<>>
    /\ response = NoResponse
    /\ exc = NoException
    /\ calls = <<>>
    /\ classification = Unclassified
    /\ previous = Unclassified

\* lambda_handler is entered (lines 128-132): the action mode is read from
\* the environment.
Enter ==
    /\ invocation' = invocation + 1
    /\ ec2_action' = SelectAction(environ)
    /\ regions' = <<>>
    /\ ri' = 0
    /\ found' = FALSE
    /\ processed' = <<>>
    /\ page' = 0
    /\ pending' = <<>>
    /\ instances' = <<>>
    /\ response' = NoResponse
    /\ exc' = NoException
    /\ calls' = <<>>
    /\ previous' = classification
    /\ classification' = Unclassified
    /\ pc' = "list_regions"
    /\ UNCHANGED <<environ, account_regions, now>>

\* The first invocation of lambda_handler.
Invoke ==
    /\ pc = "idle"
    /\ Enter

\* lambda_handler is invoked again after it returned.
InvokeAgain ==
    /\ pc = "done"
    /\ invocation < MaxInvocations
    /\ Enter

\* Lines 134-141 with list_regions (lines 21-28).
ListRegions ==
    /\ pc = "list_regions"
    /\ \E o \in Failures \cup {Success(<<>>)} :
          IF ~o.client
          THEN /\ Raise("Exception", o.text)
               /\ UNCHANGED <<regions, ri, found, processed, calls>>
          ELSE /\ calls' = Append(calls, Call("describe_regions", "", <<>>, <<>>))
               /\ IF o.raises
                  THEN /\ Raise("Exception", o.text)
                       /\ UNCHANGED <<regions, ri, found, processed>>
                  ELSE /\ regions' = account_regions
                       /\ IF NoRegions(account_regions)
                          THEN /\ Raise("ValueError", "No available regions")
                               /\ UNCHANGED <<ri, found, processed>>
                          ELSE /\ found' = FALSE
                               /\ processed' = <<>>
                               /\ ri' = 1
                               /\ pc' = IF account_regions # <<>> THEN "list"
                                        ELSE "report"
                               /\ UNCHANGED <<response, exc>>
    /\ UNCHANGED <<environ, account_regions, now, invocation, ec2_action,
                   page, pending, instances, classification, previous>>

\* list_instances (lines 33, 43-44): the client is created before the first
\* page, and the paginator fetches the next page of the region.
FetchPage ==
    /\ pc = "list"
    /\ pending = <<>>
    /\ page < NumPages(regions[ri])
    /\ \E o \in Failures \cup {Success(<<>>)} :
          IF ~o.client
          THEN /\ page = 0
               /\ Raise("Exception", o.text)
               /\ UNCHANGED <<page, pending, calls>>
          ELSE /\ calls' = Append(calls,
                    Call("describe_instances", regions[ri], <<>>, <<>>))
               /\ IF o.raises
                  THEN /\ Raise("Exception", o.text)
                       /\ UNCHANGED <<page, pending>>
                  ELSE /\ page' = page + 1
                       /\ pending' = PageInstances(
                             DescribeInstancesPage(regions[ri], page + 1).Reservations)
                       /\ UNCHANGED <<pc, response, exc>>
    /\ UNCHANGED <<environ, account_regions, now, invocation, ec2_action,
                   regions, ri, found, processed, instances, classification,
                   previous>>

\* list_instances (lines 46-71): the next instance of the page is examined
\* and kept unless ignored.  The clock has moved on to t by then (it never
\* runs backwards); datetime.now() on line 62 reads t.
ExamineInstance ==
    /\ pc = "list"
    /\ pending # <<>>
    /\ \E t \in now .. NowStart + MaxTicks :
          LET ec2 == Head(pending)
              ec2_id == ec2.InstanceId
              ignore == Ignore(ec2, t)
          IN  /\ now' = t
              /\ instances' =
                    IF ignore THEN instances ELSE Append(instances, ec2_id)
              /\ classification' =
                    [classification EXCEPT ![ec2_id] =
                        [class |-> IF ignore THEN "excluded" ELSE "included",
                         young |-> /\ "LaunchTime" \in DOMAIN ec2
                                   /\ t - ec2.LaunchTime < OneHour]]
    /\ pending' = Tail(pending)
    /\ UNCHANGED <<environ, account_regions, invocation, pc, ec2_action,
                   regions, ri, found, processed, page, response, exc, calls,
                   previous>>

\* list_instances has visited every page of region ri and returned.
Listed ==
    /\ pc = "list"
    /\ pending = <<>>
    /\ page = NumPages(regions[ri])

\* Lines 149-153 with set_instance_state: the region's batch is stopped or
\* terminated and what the provider confirms is added to processed.
SetInstanceState ==
    /\ Listed
    /\ ShouldSetState(instances)
    /\ found' = TRUE
    /\ \E o \in Failures \cup {Success(e) : e \in Echoes(instances)} :
          LET r == set_instance_state(instances, ec2_action, regions[ri], o)
          IN  /\ calls' = calls \o r.call
              /\ IF r.raised
                 THEN /\ Raise(r.type, r.text)
                      /\ UNCHANGED <<ri, processed, page, pending, instances>>
                 ELSE /\ processed' = Extend(processed, r.processed)
                      /\ NextRegion
                      /\ UNCHANGED <<response, exc>>
    /\ UNCHANGED <<environ, account_regions, now, invocation, ec2_action,
                   regions, classification, previous>>

\* Lines 154-155: nothing to stop or terminate in region ri.
SkipRegion ==
    /\ Listed
    /\ ~ShouldSetState(instances)
    /\ NextRegion
    /\ UNCHANGED <<environ, account_regions, now, invocation, ec2_action,
                   regions, found, processed, response, exc, calls,
                   classification, previous>>

\* Lines 157-173: the report after the last region.
ReportResults ==
    /\ pc = "report"
    /\ LET r == Report(found, processed, ec2_action)
       IN  IF r.raised
           THEN Raise("RuntimeError", r.message)
           ELSE /\ response' = SuccessResponse(r.message)
                /\ pc' = "done"
                /\ UNCHANGED exc
    /\ UNCHANGED <<environ, account_regions, now, invocation, ec2_action,
                   regions, ri, found, processed, page, pending, instances,
                   calls, classification, previous>>

Next ==
    \/ Invoke
    \/ ListRegions
    \/ FetchPage
    \/ ExamineInstance
    \/ SetInstanceState
    \/ SkipRegion
    \/ ReportResults

\* One invocation of lambda_handler.
Spec == Init /\ [][Next]_vars

NextAgain ==
    \/ Next
    \/ InvokeAgain

\* Successive invocations of lambda_handler against the same account: the
\* provider returns the same regions, instances, tags and launch times to
\* each of them, and the clock moves on.
SpecAgain == Init /\ [][NextAgain]_vars

\* ------------------------------------------------------------ properties

InSeq(x, seq) == \E i \in DOMAIN seq : seq[i] = x

StateChangeOps == {"stop_instances", "terminate_instances"}

\* The indices in calls of the stop and terminate requests.
StateChanges == {i \in DOMAIN calls : calls[i].op \in StateChangeOps}

\* The identifier was submitted to the provider for a state change, or is in
\* the batch list_instances is building.
Submitted(id) ==
    \/ InSeq(id, instances)
    \/ \E i \in StateChanges : InSeq(id, calls[i].ids)

\* The instance carries the reserved tag.
CarriesIgnoreTag(e) ==
    /\ "Tags" \in DOMAIN e
    /\ [Key |-> "ec2-terminator:ignore", Value |-> "ignore"]
          \in {e.Tags[i] : i \in DOMAIN e.Tags}

\* The value EC2_ACTION is set to, if it is set.
ActionSettings == {p[2] : p \in {q \in environ : q[1] = "EC2_ACTION"}}

\* The invocation ran to its end and no provider call raised.
Completed == pc = "done" /\ exc.type # "Exception"

\* The instances the provider returns for a region, over all its pages, in
\* the order returned.
RECURSIVE RegionInstancesFrom(_, _)
RegionInstancesFrom(region, n) ==
    IF n > NumPages(region) THEN <<>>
    ELSE PageInstances(DescribeInstancesPage(region, n).Reservations)
            \o RegionInstancesFrom(region, n + 1)

\* The identifiers of a region this invocation classified as included, in
\* the order the provider returned them.
IncludedBatch(region) ==
    LET all == RegionInstancesFrom(region, 1)
        ids == [i \in DOMAIN all |-> all[i].InstanceId]
    IN  SelectSeq(ids, LAMBDA id : classification[id].class = "included")

\* What the provider confirmed for a region in this invocation.
RECURSIVE ConfirmedFor(_, _)
ConfirmedFor(log, region) ==
    IF log = <<>> THEN <<>>
    ELSE (IF Head(log).op \in StateChangeOps /\ Head(log).region = region
          THEN Head(log).confirmed ELSE <<>>) \o ConfirmedFor(Tail(log), region)

\* What the provider confirmed over the regions rs, region by region.
RECURSIVE ConfirmedOver(_)
ConfirmedOver(rs) ==
    IF rs = <<>> THEN <<>>
    ELSE ConfirmedFor(calls, Head(rs)) \o ConfirmedOver(Tail(rs))

\* The position of a region in the list list_regions returned.
RegionIndex(region) == CHOOSE k \in DOMAIN regions : regions[k] = region

\* C1: an instance carrying the tag ec2-terminator:ignore = ignore is never in
\* the list list_instances builds nor in any batch submitted for a state
\* change, whatever its state, its other tags or its launch time.
C1_IgnoreTagNeverSubmitted ==
    \A e \in AllInstances :
        CarriesIgnoreTag(e) =>
            /\ ~Submitted(e.InstanceId)
            /\ classification[e.InstanceId].class # "included"

\* Tagged instances (one stopped and old, with another tag first) have been
\* examined and the invocation has submitted a batch.
C1_Witness ==
    /\ classification["i-b"].class = "excluded"
    /\ classification["i-c"].class = "excluded"
    /\ classification["i-g"].class = "excluded"
    /\ StateChanges # {}

\* C2: an instance whose launch time is less than one hour before the clock's
\* reading when list_instances examines it is excluded and never submitted,
\* whatever its tags; when a completed invocation found only such instances
\* it returns 200 'No running or stopped instances found'.
C2_YoungNeverSubmitted ==
    /\ \A id \in InstanceIds :
          classification[id].young =>
              /\ classification[id].class = "excluded"
              /\ ~Submitted(id)
    /\ (/\ Completed
        /\ \E id \in InstanceIds : classification[id].class # "none"
        /\ \A id \in InstanceIds :
              classification[id].class # "none" => classification[id].young)
       => response = [statusCode |-> 200,
                      message |-> "No running or stopped instances found"]

\* The only instance found was less than an hour old and carries no tag, and
\* the invocation completed.
C2_Witness ==
    /\ Completed
    /\ regions = <<"r-c">>
    /\ classification["i-h"].young
    /\ response.statusCode = 200

C4_AnyCaseTerminates ==
    (\E v \in ActionSettings :
        v # TERMINATE /\ v # terminate /\ Lower(v) = terminate) =>
        /\ \A i \in StateChanges : calls[i].op = "terminate_instances"
        /\ (Completed /\ Len(regions) = 1 /\ processed # <<>>) =>
              response = [statusCode |-> 200,
                          message |-> "Instances terminated: " \o Repr(processed)]

\* C5: when no provider call raised and the region list is not empty, the
\* invocation returns 500 'Some instances failed to stop or terminate' if and
\* only if a batch was submitted and nothing was confirmed in any region; if
\* anything was confirmed it returns 200.
C5_FailsIffNothingConfirmed ==
    (Completed /\ account_regions # <<>>) =>
        LET submitted == \E i \in StateChanges : calls[i].ids # <<>>
            confirmed == \E i \in StateChanges : calls[i].confirmed # <<>>
        IN  /\ (response = [statusCode |-> 500,
                            message |-> "Some instances failed to stop or terminate"])
                  <=> (submitted /\ ~confirmed)
            /\ confirmed => response.statusCode = 200

\* A completed invocation returned 200 although one region's batch was not
\* confirmed at all and another's only in part.
C5_Witness ==
    /\ Completed
    /\ response.statusCode = 200
    /\ \E i \in StateChanges : calls[i].confirmed = <<>>
    /\ \E i \in StateChanges :
          /\ calls[i].confirmed # <<>>
          /\ Len(calls[i].confirmed) < Len(calls[i].ids)

\* C6: when list_regions returns no region the invocation returns 500 'No
\* available regions' and issues no describe_instances, stop_instances or
\* terminate_instances request.
C6_NoRegionsNoRequests ==
    (invocation > 0 /\ account_regions = <<>>) =>
        /\ \A i \in DOMAIN calls : calls[i].op = "describe_regions"
        /\ Completed =>
              response = [statusCode |-> 500, message |-> "No available regions"]

\* describe_regions answered with no region and the invocation ended.
C6_Witness ==
    /\ Completed
    /\ account_regions = <<>>
    /\ Len(calls) = 1
    /\ response.statusCode = 500

\* C7: when a provider call raises, the invocation ends at once with status
\* 500 and the text of that error as its message; no request was issued for
\* a region after the one it was at, none besides the listing and the one
\* state change of each earlier region, and the message does not list the
\* identifiers confirmed before.
C7_ProviderErrorAborts ==
    exc.type = "Exception" =>
        /\ pc = "done"
        /\ response = [statusCode |-> 500, message |-> exc.text]
        /\ exc.text \in ErrorTexts
        /\ \A i \in DOMAIN calls :
              \/ calls[i].op = "describe_regions" /\ i = 1
              \/ /\ calls[i].op \in StateChangeOps \cup {"describe_instances"}
                 /\ InSeq(calls[i].region, regions)
                 /\ RegionIndex(calls[i].region) <= ri
        /\ \A i, j \in StateChanges : calls[i].region = calls[j].region => i = j
        /\ \A i, j \in StateChanges : calls[i].op = calls[j].op
        /\ response.message # "Instances stopped: " \o Repr(processed)
        /\ response.message # "Instances terminated: " \o Repr(processed)

\* A provider call raised in the second region after the first region's
\* identifiers had been confirmed.
C7_Witness ==
    /\ exc.type = "Exception"
    /\ ri = 2
    /\ processed # <<>>
    /\ response.message = "RequestLimitExceeded"

\* C8: a successful invocation that had identifiers confirmed reports
\* 'Instances terminated: [...]' in terminate mode and 'Instances stopped:
\* [...]' otherwise, listing exactly what the provider confirmed, region by
\* region in the order list_regions returned them and within a region in
\* the order the provider echoed.
C8_MessageListsConfirmed ==
    (pc = "done" /\ response.statusCode = 200
        /\ \E i \in StateChanges : calls[i].confirmed # <<>>) =>
        response.message =
            (IF ActionSettings = {TERMINATE}
             THEN "Instances terminated: " ELSE "Instances stopped: ")
                \o Repr(ConfirmedOver(account_regions))

\* Two regions had identifiers confirmed, the second of them two of the
\* three it was sent, and the invocation succeeded in terminate mode.
C8_Witness ==
    /\ pc = "done"
    /\ response.statusCode = 200
    /\ ec2_action = terminate
    /\ \E i, j \in StateChanges :
          /\ i < j
          /\ calls[i].confirmed # <<>>
          /\ Len(calls[j].ids) = 3
          /\ Len(calls[j].confirmed) = 2

\* C9 as stated: an instance examined in two successive invocations against
\* the same account is classified the same way in both.
C9_SameClassification ==
    \A id \in InstanceIds :
        (previous[id].class # "none" /\ classification[id].class # "none") =>
            classification[id].class = previous[id].class

\* C9 amended: an instance examined in two successive invocations against the
\* same account is classified the same way in both if it carries the ignore
\* tag, has no launch time, or its age was on the same side of one hour at
\* both examinations.
C9_SameClassificationSameAge ==
    \A e \in AllInstances :
        LET id == e.InstanceId
        IN  (/\ previous[id].class # "none"
             /\ classification[id].class # "none"
             /\ \/ CarriesIgnoreTag(e)
                \/ "LaunchTime" \notin DOMAIN e
                \/ previous[id].young = classification[id].young)
            => classification[id].class = previous[id].class

\* Both invocations examined an untagged instance while it was young and a
\* tagged instance that passed one hour of age in between.
C9_Witness ==
    /\ previous["i-h"].class = "excluded"
    /\ previous["i-h"].young
    /\ classification["i-h"].class = "excluded"
    /\ previous["i-g"].young
    /\ classification["i-g"].class = "excluded"
    /\ ~classification["i-g"].young

\* C10: requests follow the order of the regions; a region is listed in full
\* before its state change; a region gets at most one state-change request,
\* and once the loop is past it exactly one if its filtered listing is not
\* empty and none if it is; the request carries the region's whole filtered
\* batch, never an empty one; all state-change requests are of one kind.
C10_OneBatchPerRegionInOrder ==
    /\ \A i, j \in DOMAIN calls :
          (i < j /\ calls[i].op # "describe_regions") =>
              /\ calls[j].op # "describe_regions"
              /\ RegionIndex(calls[i].region) <= RegionIndex(calls[j].region)
    /\ \A j \in StateChanges :
          /\ Cardinality({i \in 1..(j - 1) :
                /\ calls[i].op = "describe_instances"
                /\ calls[i].region = calls[j].region}) = NumPages(calls[j].region)
          /\ \A i \in DOMAIN calls :
                (i > j /\ calls[i].region = calls[j].region) => FALSE
          /\ calls[j].ids # <<>>
          /\ calls[j].ids = IncludedBatch(calls[j].region)
    /\ \A i, j \in StateChanges : calls[i].op = calls[j].op
    /\ \A k \in DOMAIN regions :
          (k < ri \/ pc = "report" \/ Completed) =>
              Cardinality({i \in StateChanges : calls[i].region = regions[k]})
                  = IF IncludedBatch(regions[k]) = <<>> THEN 0 ELSE 1

\* A completed invocation over two regions: one with nothing left after
\* filtering and no request, one whose batch of three was submitted.
C10_Witness ==
    /\ Completed
    /\ Len(regions) = 2
    /\ Cardinality(StateChanges) = 1
    /\ \E i \in StateChanges : Len(calls[i].ids) = 3
    /\ \E k \in DOMAIN regions : IncludedBatch(regions[k]) = <<>>

====
